---- MODULE Spec2Model ----
(***************************************************************************)
(* Model of bench/run_tokenize_bench.py: the tokenize benchmark driver.   *)
(* One process (main -> run_bench) runs a single control loop that polls  *)
(* /stats, submits jobs in fixed-rate or flood mode, and writes artifacts.*)
(* The wall clock (time.time()) belongs to the environment: each reading  *)
(* is after the previous one, or stalls: equal to it, or one unit before  *)
(* it (time.time() is not a monotonic clock).  Time is counted in units   *)
(* of 1/Scale s; the program reads only differences of clock values, so   *)
(* the loop's first reading (start) is fixed at Origin.                   *)
(***************************************************************************)
EXTENDS Integers, Sequences, FiniteSets

\* ---------------------------------------------------------------- bounds
MaxDuration == 5    \* largest --duration (seconds)
MaxInflight == 2    \* largest --max_inflight
MaxCompleted == 1   \* largest value the remote completion counter reports
MaxStalls == 1      \* clock readings of a run that do not advance the clock

\* ------------------------------------------------------- program constants
Scale == 1          \* the 1.0 s of `1.0 / cfg.rate_tps`, in clock units
None == -1          \* Optional[int] None (counters and rates are >= 0)
ThreeShapes == 2 + 1 \* a payload list with a third shape
NumShapes == 2      \* len(payloads) in submit_job
BurstCap == 1       \* submissions one loop iteration can issue
TwoSeconds == 2 * Scale
Origin == MaxStalls \* the value of start: no reading falls below 0
LogEvery == 1000    \* flood mode logs the successes with submitted % 1000 == 0
BackpressureSleepMs == 2  \* time.sleep(0.002)
FailureSleepMs == 50      \* time.sleep(0.05)

Modes == {"fixed-rate", "flood", "bogus"}
Choices == {"fixed-rate", "flood"}
Rates == {r \in 0..Scale : r = 0 \/ Scale % r = 0}
Durations == {0, 2, MaxDuration}
ShortDurations == Durations \ {MaxDuration}
Statuses == {0, 200, 500}   \* 0: the POST raised (transport fault, timeout)
\* RunConfig as main() builds it: rate_tps is None unless the mode is
\* fixed-rate; max_inflight is read in flood mode only
RunConfigs ==
  {c \in [mode : Modes, rate_tps : Rates \cup {None}, duration_s : Durations,
          max_inflight : 1..MaxInflight, sample_interval_s : {Scale}] :
     /\ c.mode = "fixed-rate" <=> c.rate_tps # None
     /\ c.mode # "flood" => c.max_inflight = MaxInflight}
PollResults == [ok : BOOLEAN, completed : {None} \cup 0..MaxCompleted]

VARIABLES
  cfg,                      \* RunConfig (parsed args)
  pc,                       \* position of the process
  clock,                    \* the latest reading of time.time(), in units
  stalls,                   \* readings so far that did not advance the clock
  artifacts,                \* files and directories created
  requests,                 \* kinds of HTTP request sent
  raisedBy,                 \* the uncaught exception that ended run_bench
  start, end, now,
  submitted, submit_fail,
  last_completed_total, baseline_completed_total,
  next_sample, next_tick, interval,
  postOutcomes,             \* status of each POST of the current submit_job call
  result,                   \* how the current submit_job call ended
  attempts,                 \* calls of submit_job so far
  n2xx,                     \* POSTs answered 2xx so far
  last_iter,                \* what the last completed loop iteration did
  slept,                    \* ms the last completed iteration spent in time.sleep
  submit_log,               \* submit_log.jsonl: lines per event, "t" of the last line
  stats_log                 \* stats_timeseries.jsonl: likewise

vars == <<cfg, pc, clock, stalls, artifacts, requests, raisedBy,
          start, end, now, submitted, submit_fail, last_completed_total,
          baseline_completed_total, next_sample, next_tick, interval,
          postOutcomes, result, attempts, n2xx, last_iter, slept,
          submit_log, stats_log>>

loopVars == <<start, end, now, submitted, submit_fail, last_completed_total,
              baseline_completed_total, next_sample, next_tick, interval,
              postOutcomes, result, attempts, n2xx, last_iter, slept>>

PreLoopPcs == {"start", "setup", "healthz", "agents_start", "init_loop"}
LoopPcs == {"loop", "sample", "dispatch", "post", "submit_done"}
PostLoopPcs == {"final_stats", "agents_end", "summary"}
EndPcs == {"done", "raised", "usage_error"}

\* ------------------------------------------------------ pure conditions
\* line 172
Interval(mode, rate) ==
  IF mode = "fixed-rate" /\ rate # None /\ rate > 0 THEN Scale \div rate ELSE 0

\* A deadline test that fires one unit early
DeadlineReachedEarly(n, e) == n + 1 >= e

\* line 176
DeadlineReached(n, e) == n >= e

\* line 180
SampleDue(n, ns) == n >= ns

\* lines 187-191: the first recognized integer counter of the poll, or None
DiscoverCompleted(r) == IF r.ok THEN r.completed ELSE None

\* A baseline that follows every observed counter value
BaselineFollowsLast(base, completed) ==
  IF completed # None THEN completed ELSE base

\* lines 193-195: the baseline is the first counter value observed
BaselineAfter(base, completed) ==
  IF completed # None /\ base = None THEN completed ELSE base

\* lines 193-196: the latest counter value observed
LastAfter(last, completed) ==
  IF completed # None THEN completed ELSE last

\* line 206
TickDue(n, nt) == n >= nt

\* lines 216-219
NextTickAfter(nt, iv, n) ==
  LET t == nt + iv IN IF t < n - TwoSeconds THEN n ELSE t

\* An off-by-one ceiling: inflight <= max_inflight
FloodMaySubmitInclusive(sub, last, base, max) ==
  \/ base = None
  \/ last = None
  \/ sub - (last - base) <= max

\* An unknown estimate counted as "nothing completed yet"
FloodMaySubmitUnknownAsSubmitted(sub, last, base, max) ==
  IF base = None \/ last = None THEN sub < max ELSE sub - (last - base) < max

\* lines 223-227: inflight is None, or inflight < max_inflight
FloodMaySubmit(sub, last, base, max) ==
  \/ base = None
  \/ last = None
  \/ sub - (last - base) < max

\* A flood mode that logs every success, as fixed-rate mode does
LogsEverySubmitOk(mode, n) == TRUE

\* lines 208-209, 231-234: does the success that made submitted = n get a
\* submit_ok line?
LogsSubmitOk(mode, n) == mode = "fixed-rate" \/ n % LogEvery = 0

\* A success test without its upper limit
Is2xxUnbounded(s) == 200 <= s

\* line 106
Is2xx(s) == 200 <= s /\ s < 300

\* submit_job handing last_err back to the caller instead of raising
SubmitJobResultReturnsError(outs) ==
  IF Is2xx(outs[Len(outs)]) \/ Len(outs) >= NumShapes THEN "ok" ELSE "none"

\* lines 103-117: how submit_job stands after the POSTs in outs (outs # <<>>):
\* returned a record, raised RuntimeError, or goes on to the next shape
SubmitJobResult(outs) ==
  IF Is2xx(outs[Len(outs)]) THEN "ok"
  ELSE IF Len(outs) >= NumShapes THEN "raised"
  ELSE "none"

\* ------------------------------------------------------------------ Init
Init ==
  /\ cfg \in RunConfigs
  /\ pc = "start"
  /\ clock = 0
  /\ stalls = 0
  /\ artifacts = {}
  /\ requests = {}
  /\ raisedBy = "none"
  /\ start = 0 /\ end = 0 /\ now = None
  /\ submitted = 0 /\ submit_fail = 0
  /\ last_completed_total = None /\ baseline_completed_total = None
  /\ next_sample = 0 /\ next_tick = 0 /\ interval = 0
  /\ postOutcomes = <<>>
  /\ result = "none"
  /\ attempts = 0
  /\ n2xx = 0
  /\ last_iter = "none"
  /\ slept = 0
  /\ submit_log = [healthz |-> 0, submit_ok |-> 0, submit_fail |-> 0, t |-> None]
  /\ stats_log = [polls |-> 0, final |-> 0, t |-> None]

\* ----------------------------------------------------------- environment
\* The values time.time() may return to the loop, up to the deadline
\* (readings past the deadline are indistinguishable from it).
Stalled(t) == t < clock \/ (t = clock /\ now # None)

ClockReadings ==
  {t \in 0..end : t >= clock - 1 /\ (Stalled(t) => stalls < MaxStalls)}

\* The values time.time() may return after the loop (the latest reading is
\* at the deadline, where the readings past it are counted)
FinalReadings ==
  {t \in 0..end : t >= clock - 1 /\ (t < clock => stalls < MaxStalls)}

\* The values time.time() may return to the health check, which start
\* (read after it) does not precede
HealthzReadings == {t \in 0..Origin : t >= Origin - 1}

\* --------------------------------------------------------------- startup
\* main(): argparse rejects a --mode outside choices, else calls run_bench
ParseArgs ==
  /\ pc = "start"
  /\ pc' = IF cfg.mode \in Choices THEN "setup" ELSE "usage_error"
  /\ UNCHANGED <<cfg, clock, stalls, artifacts, requests, raisedBy, loopVars,
                 submit_log, stats_log>>

\* run_bench(cfg) called with a RunConfig built by the caller
CallRunBench ==
  /\ pc = "start"
  /\ pc' = "setup"
  /\ UNCHANGED <<cfg, clock, stalls, artifacts, requests, raisedBy, loopVars,
                 submit_log, stats_log>>

\* run_bench: runs/, the run directory, config.json
Setup ==
  /\ pc = "setup"
  /\ artifacts' = artifacts \cup {"run_dir", "config.json"}
  /\ pc' = "healthz"
  /\ UNCHANGED <<cfg, clock, stalls, requests, raisedBy, loopVars,
                 submit_log, stats_log>>

\* best-effort health check: either outcome is logged to submit_log.jsonl,
\* stamped with a reading of time.time()
HealthCheck ==
  /\ pc = "healthz"
  /\ \E ok \in BOOLEAN, t \in HealthzReadings :
       /\ requests' = requests \cup {"healthz"}
       /\ artifacts' = artifacts \cup {"submit_log.jsonl"}
       /\ clock' = t
       /\ submit_log' = [submit_log EXCEPT !.healthz = @ + 1, !.t = t]
  /\ pc' = "agents_start"
  /\ UNCHANGED <<cfg, stalls, raisedBy, loopVars, stats_log>>

\* agents_start = get_json(...): not inside a try
AgentsStart ==
  /\ pc = "agents_start"
  /\ requests' = requests \cup {"agents"}
  /\ \E ok \in BOOLEAN :
       IF ok THEN /\ artifacts' = artifacts \cup {"agents_start.json"}
                  /\ pc' = "init_loop"
                  /\ UNCHANGED raisedBy
             ELSE /\ pc' = "raised"
                  /\ raisedBy' = "agents_start"
                  /\ UNCHANGED artifacts
  /\ UNCHANGED <<cfg, clock, stalls, loopVars, submit_log, stats_log>>

InitLoop ==
  /\ pc = "init_loop"
  /\ clock' = Origin
  /\ start' = Origin
  /\ end' = Origin + cfg.duration_s * Scale
  /\ next_sample' = Origin
  /\ next_tick' = Origin
  /\ submitted' = 0
  /\ submit_fail' = 0
  /\ last_completed_total' = None
  /\ baseline_completed_total' = None
  /\ interval' = Interval(cfg.mode, cfg.rate_tps)
  /\ pc' = "loop"
  /\ UNCHANGED <<cfg, stalls, artifacts, requests, raisedBy, now,
                 postOutcomes, result, attempts, n2xx, last_iter, slept,
                 submit_log, stats_log>>

\* ------------------------------------------------------------------ loop
\* while True: now = time.time(); if now >= end: break
LoopTop ==
  /\ pc = "loop"
  /\ \E t \in ClockReadings :
       /\ clock' = t
       /\ stalls' = IF Stalled(t) THEN stalls + 1 ELSE stalls
       /\ now' = t
       /\ pc' = IF DeadlineReached(t, end) THEN "final_stats" ELSE "sample"
  /\ UNCHANGED <<cfg, artifacts, requests, raisedBy, start, end,
                 submitted, submit_fail, last_completed_total,
                 baseline_completed_total, next_sample, next_tick, interval,
                 postOutcomes, result, attempts, n2xx, last_iter, slept,
                 submit_log, stats_log>>

\* if now >= next_sample: poll /stats, log it, discover the counter
Sample ==
  /\ pc = "sample"
  /\ IF SampleDue(now, next_sample)
       THEN \E r \in PollResults :
              LET completed_total == DiscoverCompleted(r) IN
              /\ r.ok \/ r.completed = None
              /\ requests' = requests \cup {"stats"}
              /\ artifacts' = artifacts \cup {"stats_timeseries.jsonl"}
              /\ stats_log' = [stats_log EXCEPT !.polls = @ + 1, !.t = now]
              /\ baseline_completed_total' =
                   BaselineAfter(baseline_completed_total, completed_total)
              /\ last_completed_total' =
                   LastAfter(last_completed_total, completed_total)
              /\ next_sample' = next_sample + cfg.sample_interval_s
       ELSE UNCHANGED <<requests, artifacts, stats_log, baseline_completed_total,
                        last_completed_total, next_sample>>
  /\ pc' = "dispatch"
  /\ UNCHANGED <<cfg, clock, stalls, raisedBy, start, end, now, submitted,
                 submit_fail, next_tick, interval, postOutcomes, result, attempts,
                 n2xx, last_iter, slept, submit_log>>

\* if cfg.mode == "fixed-rate": submit when now >= next_tick
FixedRateDispatch ==
  /\ pc = "dispatch"
  /\ cfg.mode = "fixed-rate"
  /\ IF TickDue(now, next_tick)
       THEN /\ pc' = "post"
            /\ attempts' = attempts + 1
            /\ UNCHANGED <<last_iter, slept>>
       ELSE /\ pc' = "loop"
            /\ last_iter' = "idle"
            /\ slept' = 0
            /\ UNCHANGED attempts
  /\ UNCHANGED <<cfg, clock, stalls, artifacts, requests, raisedBy, start,
                 end, now, submitted, submit_fail, last_completed_total,
                 baseline_completed_total, next_sample, next_tick, interval,
                 postOutcomes, result, n2xx, submit_log, stats_log>>

\* elif cfg.mode == "flood": submit below the ceiling, else time.sleep(0.002)
FloodDispatch ==
  /\ pc = "dispatch"
  /\ cfg.mode = "flood"
  /\ IF FloodMaySubmit(submitted, last_completed_total, baseline_completed_total,
                       cfg.max_inflight)
       THEN /\ pc' = "post"
            /\ attempts' = attempts + 1
            /\ UNCHANGED <<last_iter, slept>>
       ELSE /\ pc' = "loop"
            /\ last_iter' = "backoff"
            /\ slept' = BackpressureSleepMs
            /\ UNCHANGED attempts
  /\ UNCHANGED <<cfg, clock, stalls, artifacts, requests, raisedBy, start,
                 end, now, submitted, submit_fail, last_completed_total,
                 baseline_completed_total, next_sample, next_tick, interval,
                 postOutcomes, result, n2xx, submit_log, stats_log>>

\* else: raise ValueError(f"Unknown mode: {cfg.mode}")
UnknownMode ==
  /\ pc = "dispatch"
  /\ cfg.mode \notin Choices
  /\ pc' = "raised"
  /\ raisedBy' = "mode"
  /\ UNCHANGED <<cfg, clock, stalls, artifacts, requests, loopVars,
                 submit_log, stats_log>>

\* submit_job: one pass of `for payload in payloads`
Post ==
  /\ pc = "post"
  /\ \E s \in Statuses :
       LET outs == Append(postOutcomes, s) IN
       /\ postOutcomes' = outs
       /\ requests' = requests \cup {"job"}
       /\ n2xx' = IF s \in 200..299 THEN n2xx + 1 ELSE n2xx
       /\ result' = SubmitJobResult(outs)
       /\ pc' = IF SubmitJobResult(outs) = "none" THEN "post" ELSE "submit_done"
  /\ UNCHANGED <<cfg, clock, stalls, artifacts, raisedBy, start, end, now,
                 submitted, submit_fail, last_completed_total,
                 baseline_completed_total, next_sample, next_tick, interval,
                 attempts, last_iter, slept, submit_log, stats_log>>

\* submit_job returned: submitted += 1 (and, fixed-rate, next_tick moves on)
SubmitOk ==
  /\ pc = "submit_done"
  /\ result = "ok"
  /\ submitted' = submitted + 1
  /\ artifacts' = artifacts \cup {"submit_log.jsonl"}
  /\ submit_log' = IF LogsSubmitOk(cfg.mode, submitted + 1)
                     THEN [submit_log EXCEPT !.submit_ok = @ + 1, !.t = now]
                     ELSE submit_log
  /\ next_tick' = IF cfg.mode = "fixed-rate"
                    THEN NextTickAfter(next_tick, interval, now) ELSE next_tick
  /\ last_iter' = "submit_ok"
  /\ slept' = 0
  /\ postOutcomes' = <<>>
  /\ result' = "none"
  /\ pc' = "loop"
  /\ UNCHANGED <<cfg, clock, stalls, requests, raisedBy, start, end, now,
                 submit_fail, last_completed_total, baseline_completed_total,
                 next_sample, interval, attempts, n2xx, stats_log>>

\* submit_job raised: except Exception: submit_fail += 1
SubmitFail ==
  /\ pc = "submit_done"
  /\ result = "raised"
  /\ submit_fail' = submit_fail + 1
  /\ artifacts' = artifacts \cup {"submit_log.jsonl"}
  /\ submit_log' = [submit_log EXCEPT !.submit_fail = @ + 1, !.t = now]
  /\ next_tick' = IF cfg.mode = "fixed-rate"
                    THEN NextTickAfter(next_tick, interval, now) ELSE next_tick
  /\ last_iter' = "submit_fail"
  /\ slept' = IF cfg.mode = "flood" THEN FailureSleepMs ELSE 0
  /\ postOutcomes' = <<>>
  /\ result' = "none"
  /\ pc' = "loop"
  /\ UNCHANGED <<cfg, clock, stalls, requests, raisedBy, start, end, now,
                 submitted, last_completed_total, baseline_completed_total,
                 next_sample, interval, attempts, n2xx, stats_log>>

\* -------------------------------------------------------------- epilogue
\* the final poll: either outcome is logged to stats_timeseries.jsonl,
\* stamped with a reading of time.time()
FinalStats ==
  /\ pc = "final_stats"
  /\ \E ok \in BOOLEAN, t \in FinalReadings :
       /\ requests' = requests \cup {"stats"}
       /\ artifacts' = artifacts \cup {"stats_timeseries.jsonl"}
       /\ clock' = t
       /\ stalls' = IF t < clock THEN stalls + 1 ELSE stalls
       /\ stats_log' = [stats_log EXCEPT !.final = @ + 1, !.t = t]
  /\ pc' = "agents_end"
  /\ UNCHANGED <<cfg, raisedBy, loopVars, submit_log>>

\* agents_end = get_json(...): not inside a try
AgentsEnd ==
  /\ pc = "agents_end"
  /\ requests' = requests \cup {"agents"}
  /\ \E ok \in BOOLEAN :
       IF ok THEN /\ artifacts' = artifacts \cup {"agents_end.json"}
                  /\ pc' = "summary"
                  /\ UNCHANGED raisedBy
             ELSE /\ pc' = "raised"
                  /\ raisedBy' = "agents_end"
                  /\ UNCHANGED artifacts
  /\ UNCHANGED <<cfg, clock, stalls, loopVars, submit_log, stats_log>>

Summary ==
  /\ pc = "summary"
  /\ artifacts' = artifacts \cup {"summary.json"}
  /\ pc' = "done"
  /\ UNCHANGED <<cfg, clock, stalls, requests, raisedBy, loopVars,
                 submit_log, stats_log>>

Program ==
  \/ ParseArgs \/ CallRunBench \/ Setup \/ HealthCheck \/ AgentsStart \/ InitLoop
  \/ LoopTop \/ Sample \/ FixedRateDispatch \/ FloodDispatch \/ UnknownMode
  \/ Post \/ SubmitOk \/ SubmitFail \/ FinalStats \/ AgentsEnd \/ Summary

Next == Program

Spec == Init /\ [][Next]_vars

\* Every network call and sleep returns, so the process always takes its
\* next step; the clock keeps advancing (at most MaxStalls readings do not
\* advance it).  Liveness is checked on the runs of ShortDurations.
LiveInit == Init /\ cfg.duration_s \in ShortDurations

LiveSpec == LiveInit /\ [][Next]_vars /\ WF_vars(Next)

TypeOK ==
  /\ pc \in PreLoopPcs \cup LoopPcs \cup PostLoopPcs \cup EndPcs
  /\ submitted >= 0 /\ submit_fail >= 0
  /\ Len(postOutcomes) <= NumShapes

ValidMode == cfg.mode \in Choices

\* The POSTs of the current submit_job call that were answered 2xx
Answered2xx == {i \in 1..Len(postOutcomes) : postOutcomes[i] \in 200..299}

\* ceil(a / b) for b > 0
CeilDiv(a, b) == -((-a) \div b)

\* The loop's flood governor is about to decide with the counter observed
\* and the latest observation equal to the first (the counter is frozen).
FrozenAtDispatch ==
  /\ pc = "dispatch"
  /\ cfg.mode = "flood"
  /\ baseline_completed_total # None
  /\ last_completed_total = baseline_completed_total

\* ================================================================ claims

\* C1 (as stated): in flood mode, with the completion counter observed and
\* frozen, once max_inflight submissions have been issued (attempted) the
\* governor issues no further one: the iteration is a backoff.
C1_FrozenCounterCapsIssued ==
  [][(FrozenAtDispatch /\ attempts >= cfg.max_inflight)
       => (pc' = "loop" /\ last_iter' = "backoff" /\ attempts' = attempts)]_vars

\* C1 (amended): in flood mode, with the completion counter observed and
\* frozen, once max_inflight submissions have succeeded (the submitted
\* counter, which failed attempts do not increment, has reached
\* max_inflight) every iteration is a non-submitting backoff.
C1_FrozenCounterCapsSubmitted ==
  [][(FrozenAtDispatch /\ submitted >= cfg.max_inflight)
       => (pc' = "loop" /\ last_iter' = "backoff" /\ attempts' = attempts)]_vars

\* C1 witness: a throttled iteration right at the ceiling of MaxInflight,
\* after a failed attempt that did not count.
C1_Witness ==
  /\ pc = "loop" /\ cfg.mode = "flood" /\ last_iter = "backoff"
  /\ baseline_completed_total # None
  /\ last_completed_total = baseline_completed_total
  /\ cfg.max_inflight = MaxInflight
  /\ submitted = cfg.max_inflight
  /\ attempts > submitted

\* C2: in fixed-rate mode the submissions issued so far never exceed
\* ceil(R * elapsed) + B, elapsed being the latest clock reading minus start
\* (stated here for the runs whose every clock reading advanced the clock).
C2_RateBound ==
  (cfg.mode = "fixed-rate" /\ pc \in LoopPcs /\ stalls = 0)
    => attempts <= CeilDiv(cfg.rate_tps * (clock - start), Scale) + BurstCap

\* C3: in fixed-rate mode with rate 0 no submission is ever issued.
C3_ZeroRateIdles ==
  (cfg.mode = "fixed-rate" /\ cfg.rate_tps = 0) => attempts = 0

\* C4: with a valid mode no failed request ends the run with an exception.
C4_NoRequestFailureEndsRun ==
  ValidMode => pc # "raised"

\* C5: with a valid mode the loop always exits, and it exits only by the
\* deadline test of an iteration whose clock reading is at or past end.
C5_LoopExitsAtDeadline ==
  /\ (ValidMode /\ pc \in LoopPcs) ~> (pc \notin LoopPcs)
  /\ [][(ValidMode /\ pc \in LoopPcs /\ pc' \notin LoopPcs)
          => (pc = "loop" /\ pc' = "final_stats" /\ now' >= end)]_vars

\* C5 witness: a flood run left the loop right after a throttled
\* iteration, its counter frozen.
C5_Witness ==
  /\ pc = "final_stats" /\ cfg.mode = "flood" /\ last_iter = "backoff"
  /\ last_completed_total = baseline_completed_total

\* C6: between submission attempts, submitted counts the attempts answered
\* 2xx and submit_fail the others (so with no 2xx at all submitted = 0 and
\* submit_fail = attempts); a failed attempt returns the loop to its top,
\* and a finished run has written summary.json.
C6_CountersMatchOutcomes ==
  /\ [](pc \notin {"post", "submit_done"}
          => (submitted = n2xx /\ submitted + submit_fail = attempts))
  /\ [](pc = "done" => "summary.json" \in artifacts)
  /\ [][(pc = "submit_done") => (pc' = "loop")]_vars

\* C6 witness: a finished run whose every POST failed.
C6_Witness ==
  /\ pc = "done" /\ "summary.json" \in artifacts
  /\ n2xx = 0 /\ submitted = 0 /\ attempts >= 2 /\ submit_fail = attempts

\* C7 (as stated): submit_job never raises.
C7_SubmitJobNeverRaises == result # "raised"

\* C7 (amended): submit_job returns a success record exactly when a POST was
\* answered 2xx, and raises RuntimeError exactly when every payload shape
\* failed (non-2xx, transport fault or timeout).
C7_SubmitJobReturnsOrRaises ==
  pc = "submit_done" =>
    /\ postOutcomes # <<>>
    /\ result \in {"ok", "raised"}
    /\ result = "ok" <=> Answered2xx # {}
    /\ result = "raised" <=> (Answered2xx = {} /\ Len(postOutcomes) = 2)

\* C7 witness: submit_job raised after a non-2xx answer and a transport fault.
C7_Witness ==
  /\ pc = "submit_done" /\ result = "raised"
  /\ postOutcomes = <<500, 0>>

\* C8 (as stated): one submission attempt sends at most one POST.
C8_OnePostPerAttempt == Len(postOutcomes) <= 1

\* C8 (amended): one submission attempt sends at most two POSTs, the second
\* only after the first failed; no POST follows a 2xx answer.
C8_AtMostTwoPosts ==
  /\ Len(postOutcomes) <= 2
  /\ Answered2xx \subseteq {Len(postOutcomes)}
  /\ pc = "post" => Answered2xx = {}

\* C8 witness: a failed POST was followed by a second POST, which succeeded.
C8_Witness ==
  /\ pc = "submit_done" /\ result = "ok"
  /\ postOutcomes = <<500, 200>>

C10_InvalidModeRejectedAtStartup ==
  ~ValidMode => (artifacts = {} /\ requests = {})

\* C11: in fixed-rate mode an iteration in which no submission is due does
\* no submission work and ends with a timed sleep, so that no two
\* consecutive non-submitting iterations run without a sleep between them.
C11_IdleIterationSleeps ==
  /\ [][(pc = "dispatch" /\ cfg.mode = "fixed-rate" /\ pc' = "loop")
          => (attempts' = attempts /\ slept' > 0)]_vars
  /\ [][(pc = "dispatch" /\ cfg.mode = "fixed-rate" /\ last_iter = "idle"
           /\ pc' = "loop")
          => (slept > 0)]_vars

\* The number of lines of each log
SubmitLines(l) == l.healthz + l.submit_ok + l.submit_fail

StatsLines(l) == l.polls + l.final

\* C12: each log only grows, and every line appended to submit_log.jsonl or
\* to stats_timeseries.jsonl carries a timestamp t no smaller than that of
\* the line before it (the healthz line and the final line included),
\* whatever the clock readings.
C12_LogTimestampsNonDecreasing ==
  /\ [][SubmitLines(submit_log') >= SubmitLines(submit_log)
        /\ StatsLines(stats_log') >= StatsLines(stats_log)]_vars
  /\ [][(SubmitLines(submit_log') > SubmitLines(submit_log) /\ submit_log.t # None)
          => (submit_log'.t >= submit_log.t)]_vars
  /\ [][(StatsLines(stats_log') > StatsLines(stats_log) /\ stats_log.t # None)
          => (stats_log'.t >= stats_log.t)]_vars

\* The scheduler's credit at clock reading n: the submissions lines 206-219
\* issue, one per iteration, while the reading stays n (counted up to k)
RECURSIVE Entitled(_, _, _, _)
Entitled(k, n, nt, iv) ==
  IF k = 0 \/ ~TickDue(n, nt) THEN 0
  ELSE 1 + Entitled(k - 1, n, NextTickAfter(nt, iv, n), iv)

\* Credit is counted up to two seconds' worth of ticks and two more
CreditCap == TwoSeconds + 2

\* C13: in fixed-rate mode (rate > 0) an iteration whose clock reading is
\* equal to or earlier than the previous iteration's does not decrease the
\* number of submissions the scheduler is entitled to issue, and the credit
\* is never negative.
C13_StallKeepsCredit ==
  [][(pc = "loop" /\ pc' = "sample" /\ cfg.mode = "fixed-rate" /\ interval > 0
        /\ now # None /\ now' <= now)
       => /\ Entitled(CreditCap, now', next_tick, interval) >= 0
          /\ Entitled(CreditCap, now', next_tick, interval)
               >= Entitled(CreditCap, now, next_tick, interval)]_vars

\* The loop observes the clock at least once per submission interval: in
\* fixed-rate mode with a rate > 0 no reading is more than 1/rate after
\* the one before it (submissions take no time: Post does not move the clock)
ObservedInTime ==
  (cfg.mode = "fixed-rate" /\ cfg.rate_tps > 0)
    => clock' - clock <= Scale \div cfg.rate_tps

TimelyLoopTop == LoopTop /\ ObservedInTime

TimelyNext ==
  \/ ParseArgs \/ CallRunBench \/ Setup \/ HealthCheck \/ AgentsStart \/ InitLoop
  \/ TimelyLoopTop \/ Sample \/ FixedRateDispatch \/ FloodDispatch \/ UnknownMode
  \/ Post \/ SubmitOk \/ SubmitFail \/ FinalStats \/ AgentsEnd \/ Summary

TimelySpec == Init /\ [][TimelyNext]_vars

\* C14: in fixed-rate mode, with zero-latency submissions and the clock
\* observed at least once per submission interval, a run of duration D at
\* rate R has issued between R * D - 1 and R * D + 1 submissions when it
\* leaves the loop, and no iteration issues more than BurstCap.
C14_SubmissionsWithinOneOfRD ==
  /\ []((cfg.mode = "fixed-rate" /\ pc \in PostLoopPcs)
          => /\ attempts >= cfg.rate_tps * cfg.duration_s - 1
             /\ attempts <= cfg.rate_tps * cfg.duration_s + 1)
  /\ [][attempts' <= attempts + BurstCap]_vars

C16_EndOfRunStepsOnceInOrder ==
  /\ [](stats_log.final <= 1)
  /\ [](pc \in {"agents_end", "summary", "done"} => stats_log.final = 1)
  /\ [](("agents_end.json" \in artifacts) => stats_log.final = 1)
  /\ [](("summary.json" \in artifacts) => ("agents_end.json" \in artifacts))
  /\ []((stats_log.final = 1 /\ pc \in EndPcs) => ("summary.json" \in artifacts))
  /\ [][(stats_log.final >= 1)
          => (stats_log' = stats_log /\ submit_log' = submit_log
              /\ attempts' = attempts
              /\ (("job" \in requests') <=> ("job" \in requests)))]_vars

\* C17: in fixed-rate mode every submitting iteration leaves next_tick no
\* more than 2 seconds before its clock reading, so that the submissions
\* still due at that reading, issued back to back, are at most 2 * R + 1.
C17_CatchUpBacklogBounded ==
  /\ [][(pc = "submit_done" /\ cfg.mode = "fixed-rate")
          => (next_tick' >= now - TwoSeconds)]_vars
  /\ []((cfg.mode = "fixed-rate" /\ pc = "loop"
           /\ last_iter \in {"submit_ok", "submit_fail"})
          => Entitled(CreditCap, now, next_tick, interval) <= 2 * cfg.rate_tps + 1)

\* C18: a submission is issued, and a periodic stats sample taken, only in
\* an iteration whose clock reading is before end = start + duration; after
\* a reading at or past end neither happens again; and a run with
\* duration <= 0 issues no submission at all.
C18_NoWorkAtOrPastDeadline ==
  /\ [][(attempts' > attempts \/ stats_log'.polls > stats_log.polls)
          => (now # None /\ now < end)]_vars
  /\ [][(now # None /\ now >= end)
          => (attempts' = attempts /\ stats_log'.polls = stats_log.polls
              /\ now' = now)]_vars
  /\ [](cfg.duration_s <= 0 => attempts = 0)

\* C19: baseline_completed_total is set, together with last_completed_total,
\* by the first stats poll that carries a recognized integer counter, and
\* never changes afterwards; the one is set exactly when the other is; and a
\* poll that fails or carries no such counter leaves both as they were.
C19_BaselineFixedByFirstObservation ==
  /\ []((baseline_completed_total = None) <=> (last_completed_total = None))
  /\ [][(baseline_completed_total # None)
          => (baseline_completed_total' = baseline_completed_total)]_vars
  /\ [][(baseline_completed_total' # baseline_completed_total
           \/ last_completed_total' # last_completed_total)
          => /\ pc = "sample" /\ SampleDue(now, next_sample)
             /\ stats_log'.polls = stats_log.polls + 1
             /\ last_completed_total' \in 0..MaxCompleted]_vars
  /\ [][(baseline_completed_total = None /\ last_completed_total' # None)
          => (baseline_completed_total' = last_completed_total')]_vars
  /\ [](pc = "sample" =>
          \A r \in PollResults :
            DiscoverCompleted(r) = None =>
              /\ BaselineAfter(baseline_completed_total, DiscoverCompleted(r))
                   = baseline_completed_total
              /\ LastAfter(last_completed_total, DiscoverCompleted(r))
                   = last_completed_total)

\* C19 witness: the counter was observed at 0, then at MaxCompleted: the
\* baseline kept the first value.
C19_Witness ==
  /\ pc = "dispatch"
  /\ baseline_completed_total = 0
  /\ last_completed_total = MaxCompleted
  /\ stats_log.polls >= 2

\* C20: the first iteration of the loop polls /stats, so a poll has been
\* attempted before the first submission is issued (in flood mode the first
\* submission meets an unset baseline only after a poll that set none); an
\* iteration polls at most once, and each poll moves next_sample on by
\* exactly sample_interval_s.
C20_FirstIterationPolls ==
  /\ []((pc = "sample" /\ last_iter = "none") => SampleDue(now, next_sample))
  /\ [][(attempts = 0 /\ attempts' = 1) => (stats_log.polls >= 1)]_vars
  /\ [][(stats_log'.polls # stats_log.polls \/ (pc # "init_loop" /\ next_sample' # next_sample))
          => /\ pc = "sample" /\ pc' = "dispatch"
             /\ stats_log'.polls = stats_log.polls + 1
             /\ next_sample' = next_sample + cfg.sample_interval_s]_vars
  /\ [][(pc' = "sample") => (pc = "loop")]_vars
====
